---- MODULE Spec2Model ----
(***************************************************************************)
(* Model of src/rel_vec.rs: RelEntry (name, wins, votes, locked) and       *)
(* RelVec (an ordered Vec<RelEntry> plus a random source), with the        *)
(* mutating operations add / remove / sort_percentage / reset and the      *)
(* selection operations min_votes, random_pair, min_pair, equal_pair,      *)
(* nearest_pair and min_equal_pair.                                        *)
(*                                                                         *)
(* Positions are 0-based as in the Rust code; At(s, i) reads s[i].         *)
(* Random draws (gen_range, shuffle, gen_bool) are nondeterministic        *)
(* choices: every operation is an operator yielding the SET of outcomes    *)
(* the random source can produce.                                          *)
(***************************************************************************)
EXTENDS Integers, Sequences, FiniteSets

VARIABLES inner, pc, ret, vec, old, arg

vars == <<inner, pc, ret, vec, old, arg>>

----------------------------------------------------------------------------
(* Bounds of the model *)

\* longest collection explored
MaxLen == 3

\* largest votes counter explored (wins <= votes)
MaxVotes == 2

\* width in bits of the modelled unsigned counter type (u32 scaled down);
\* wide enough that no product of explored counters wraps
CounterBits == 6

\* largest counter explored when compare_percentage is called on its own;
\* its square exceeds the modelled counter type
CmpMaxVotes == 12

\* 1 / sqrt(f64::EPSILON) = 2^26, so that x / 2^26 / 2^26 = x * f64::EPSILON
EpsilonInvRoot == 67108864

----------------------------------------------------------------------------
(* RelEntry *)

CounterMod == 2 ^ CounterBits

\* u32::max_value() of the modelled counter type
CounterMax == CounterMod - 1

Names == 1 .. MaxLen

RelEntry ==
    { e \in [name : Names, wins : 0 .. MaxVotes, votes : 0 .. MaxVotes, locked : BOOLEAN] :
        e.wins <= e.votes }

\* RelEntry::new(name, wins, votes)
new(name, wins, votes) ==
    [name |-> name, wins |-> wins, votes |-> votes, locked |-> FALSE]

\* RelEntry::reset: wins = 0, votes = 0, locked = false
reset(e) ==
    [e EXCEPT !.wins = 0, !.votes = 0, !.locked = FALSE]

\* RelEntry::percentage: wins * 100.0 / votes as an exact fraction num/den;
\* 0.0 / 0.0 is NaN.  (wins <= votes, so votes = 0 forces wins = 0.)
percentage(e) ==
    IF e.votes = 0
    THEN [nan |-> TRUE, num |-> 0, den |-> 1]
    ELSE [nan |-> FALSE, num |-> e.wins * 100, den |-> e.votes]

Abs(x) == IF x < 0 THEN 0 - x ELSE x

\* (p - q).abs() on f64: NaN as soon as one side is NaN
AbsDiff(p, q) ==
    IF p.nan \/ q.nan
    THEN [nan |-> TRUE, num |-> 0, den |-> 1]
    ELSE [nan |-> FALSE, num |-> Abs(p.num * q.den - q.num * p.den), den |-> p.den * q.den]

\* d < f64::EPSILON (2^-52); every comparison with NaN is false
LtEpsilon(d) ==
    /\ ~d.nan
    /\ \/ d.num = 0
       \/ ((d.den \div d.num) \div EpsilonInvRoot) \div EpsilonInvRoot >= 1

\* d2 < d on f64; every comparison with NaN is false
FloatLess(d2, d) ==
    /\ ~d2.nan
    /\ ~d.nan
    /\ d2.num * d.den < d.num * d2.den

\* u32 multiplication, wrapping at the counter width
MulCounter(x, y) == (x * y) % CounterMod

\* Ord::cmp
Cmp(x, y) == IF x < y THEN "Less" ELSE IF x = y THEN "Equal" ELSE "Greater"

\* Ordering::reverse
Reverse(o) == IF o = "Less" THEN "Greater" ELSE IF o = "Greater" THEN "Less" ELSE "Equal"

\* RelEntry::compare_percentage: cross multiplication, no special case for votes = 0
compare_percentage(a, b) ==
    LET ap == MulCounter(a.wins, b.votes)
        bp == MulCounter(b.wins, a.votes)
    IN  Cmp(ap, bp)

\* x * y does not fit the counter type
MulOverflows(x, y) == x * y > CounterMax

\* what a call of compare_percentage can do: where a product overflows, a build
\* with overflow checks panics ("attempt to multiply with overflow") and a
\* build without them goes on with the wrapped products
compare_percentage_outcomes(a, b) ==
    IF MulOverflows(a.wins, b.votes) \/ MulOverflows(b.wins, a.votes)
    THEN {"Panic", compare_percentage(a, b)}
    ELSE {compare_percentage(a, b)}

----------------------------------------------------------------------------
(* RelVec helpers *)

\* self[i], 0-based
At(s, i) == s[i + 1]

Range(s) == { s[k] : k \in 1 .. Len(s) }

\* Rng::gen_range(lo..hi): the values it can draw (it panics on an empty range)
gen_range(lo, hi) == lo .. (hi - 1)

\* SliceRandom::shuffle: every arrangement of r
shuffle(r) ==
    { p \in [1 .. Len(r) -> Range(r)] : \A i, j \in 1 .. Len(r) : (p[i] = p[j]) => (i = j) }

\* Option<(usize, usize)> results, and a panic of the operation
NoneR == [tag |-> "None", a |-> 0, b |-> 0]
SomeR(x, y) == [tag |-> "Some", a |-> x, b |-> y]
PanicR == [tag |-> "Panic", a |-> 0, b |-> 0]
UnitR == [tag |-> "Unit", a |-> 0, b |-> 0]

NoArg == [kind |-> "-", n |-> 0]

----------------------------------------------------------------------------
(* RelVec: mutation and ranking *)

\* RelVec::add: push(RelEntry::new(name, 0, 0))
add(s, name) == Append(s, new(name, 0, 0))

\* The predicates handed to remove; each depends on the entry only
Predicates ==
    { [kind |-> "name", n |-> n] : n \in Names }
        \cup { [kind |-> "locked", n |-> 0], [kind |-> "novotes", n |-> 0] }

filter(p, e) ==
    IF p.kind = "name" THEN e.name = p.n
    ELSE IF p.kind = "locked" THEN e.locked
    ELSE e.votes = 0

\* Vec::retain(|i| !filter(i)): walk the entries in order, keep those not filtered
RECURSIVE retain_loop(_, _, _, _)
retain_loop(s, p, i, kept) ==
    IF i >= Len(s) THEN kept
    ELSE retain_loop(s, p, i + 1, IF ~filter(p, At(s, i)) THEN Append(kept, At(s, i)) ELSE kept)

\* remove with the negation of the filter forgotten: keeps what it should drop
remove_keeps_matching(s, p) ==
    LET Matching(e) == filter(p, e)
    IN  SelectSeq(s, Matching)

\* RelVec::remove
remove(s, p) == retain_loop(s, p, 0, <<>>)

\* the is_less that sort_by derives from |a, b| a.compare_percentage(b).reverse()
is_less(a, b) == Reverse(compare_percentage(a, b)) = "Less"

\* how many entries at the end of p the entry x is less than, without a gap
RECURSIVE TailShift(_, _, _)
TailShift(p, x, j) ==
    IF j >= 1 /\ is_less(x, p[j]) THEN 1 + TailShift(p, x, j - 1) ELSE 0

\* insert x at the end of the sorted run p, shifting it left (insert_tail)
InsertTail(p, x) ==
    LET k == TailShift(p, x, Len(p))
    IN  SubSeq(p, 1, Len(p) - k) \o <<x>> \o SubSeq(p, Len(p) - k + 1, Len(p))

RECURSIVE SortTail(_, _, _)
SortTail(s, i, done) ==
    IF i > Len(s) THEN done ELSE SortTail(s, i + 1, InsertTail(done, s[i]))

\* how many entries at the start of q are less than x, without a gap
RECURSIVE HeadShift(_, _, _)
HeadShift(q, x, j) ==
    IF j <= Len(q) /\ is_less(q[j], x) THEN 1 + HeadShift(q, x, j + 1) ELSE 0

\* insert x in front of the sorted run q, shifting it right (insert_head)
InsertHead(x, q) ==
    LET k == HeadShift(q, x, 1)
    IN  SubSeq(q, 1, k) \o <<x>> \o SubSeq(q, k + 1, Len(q))

RECURSIVE SortHead(_, _, _)
SortHead(s, i, done) ==
    IF i < 1 THEN done ELSE SortHead(s, i - 1, InsertHead(s[i], done))

\* slice::sort_by on a short slice is an insertion sort; the standard library
\* has shipped it both as "insert each entry into the sorted run on its left"
\* and as "insert each entry into the sorted run on its right".  The two agree
\* whenever the comparison is a total preorder.
SortVariants == {"tail", "head"}

sort_by(s, variant) ==
    IF variant = "tail" THEN SortTail(s, 1, <<>>) ELSE SortHead(s, Len(s), <<>>)

\* RelVec::sort_percentage: the orders the sort can leave the entries in
sort_percentage(s) == { sort_by(s, variant) : variant \in SortVariants }

----------------------------------------------------------------------------
(* RelVec: selection *)

\* RelVec::reduced: positions of the unlocked entries, ascending
RECURSIVE reduced_loop(_, _, _)
reduced_loop(s, i, acc) ==
    IF i >= Len(s) THEN acc
    ELSE reduced_loop(s, i + 1, IF ~At(s, i).locked THEN Append(acc, i) ELSE acc)

reduced(s) == reduced_loop(s, 0, <<>>)

\* the sentinel min_votes starts from
min_votes_start == CounterMax

\* the loop of min_votes: min is the least votes seen, v the positions holding it
RECURSIVE min_votes_loop(_, _, _, _)
min_votes_loop(s, i, min, v) ==
    IF i >= Len(s) THEN v
    ELSE IF At(s, i).locked THEN min_votes_loop(s, i + 1, min, v)
    ELSE IF Cmp(At(s, i).votes, min) = "Less"
         THEN min_votes_loop(s, i + 1, At(s, i).votes, <<i>>)
    ELSE IF Cmp(At(s, i).votes, min) = "Equal"
         THEN min_votes_loop(s, i + 1, min, Append(v, i))
    ELSE min_votes_loop(s, i + 1, min, v)

\* min_votes without the skip of locked entries
RECURSIVE min_votes_loop_locked(_, _, _, _)
min_votes_loop_locked(s, i, min, v) ==
    IF i >= Len(s) THEN v
    ELSE IF Cmp(At(s, i).votes, min) = "Less"
         THEN min_votes_loop_locked(s, i + 1, At(s, i).votes, <<i>>)
    ELSE IF Cmp(At(s, i).votes, min) = "Equal"
         THEN min_votes_loop_locked(s, i + 1, min, Append(v, i))
    ELSE min_votes_loop_locked(s, i + 1, min, v)

min_votes_counts_locked(s) == min_votes_loop_locked(s, 0, min_votes_start, <<>>)

\* RelVec::min_votes
min_votes(s) == min_votes_loop(s, 0, min_votes_start, <<>>)

\* RelVec::random_pair
random_pair(s) ==
    LET red == reduced(s)
    IN  IF Len(red) < 2 THEN {NoneR}
        ELSE IF gen_range(0, Len(red)) = {} \/ gen_range(0, Len(red) - 1) = {} THEN {PanicR}
        ELSE { IF i2 >= i1 THEN SomeR(At(red, i1), At(red, i2 + 1))
                           ELSE SomeR(At(red, i1), At(red, i2)) :
                 i1 \in gen_range(0, Len(red)), i2 \in gen_range(0, Len(red) - 1) }

\* min_pair with the guard off by one: a single unlocked entry passes it
min_pair_guard_one(s) ==
    LET red == reduced(s)
        mins == min_votes(s)
    IN  IF Len(red) < 1 THEN {NoneR}
        ELSE IF gen_range(0, Len(mins)) = {} \/ gen_range(0, Len(red) - 1) = {} THEN {PanicR}
        ELSE { LET i1 == At(mins, k1)
                   i2 == At(red, k2)
               IN  IF i2 >= i1 THEN SomeR(i1, i2 + 1) ELSE SomeR(i1, i2) :
                 k1 \in gen_range(0, Len(mins)), k2 \in gen_range(0, Len(red) - 1) }

\* min_pair drawing the second position from all of reduced, not all but the last
min_pair_full_draw(s) ==
    LET red == reduced(s)
        mins == min_votes(s)
    IN  IF Len(red) < 2 THEN {NoneR}
        ELSE IF gen_range(0, Len(mins)) = {} \/ gen_range(0, Len(red)) = {} THEN {PanicR}
        ELSE { LET i1 == At(mins, k1)
                   i2 == At(red, k2)
               IN  IF i2 >= i1 THEN SomeR(i1, i2 + 1) ELSE SomeR(i1, i2) :
                 k1 \in gen_range(0, Len(mins)), k2 \in gen_range(0, Len(red)) }

\* min_pair drawing the first position from reduced instead of the min-votes set
min_pair_any_first(s) ==
    LET red == reduced(s)
    IN  IF Len(red) < 2 THEN {NoneR}
        ELSE { LET i1 == At(red, k1)
                   i2 == At(red, k2)
               IN  IF i2 >= i1 THEN SomeR(i1, i2 + 1) ELSE SomeR(i1, i2) :
                 k1 \in gen_range(0, Len(red)), k2 \in gen_range(0, Len(red) - 1) }

\* RelVec::min_pair: i1 and i2 are positions of the collection, and the shift
\* i2 + 1 is applied to the position itself
min_pair(s) ==
    LET red == reduced(s)
        mins == min_votes(s)
    IN  IF Len(red) < 2 THEN {NoneR}
        ELSE IF gen_range(0, Len(mins)) = {} \/ gen_range(0, Len(red) - 1) = {} THEN {PanicR}
        ELSE { LET i1 == At(mins, k1)
                   i2 == At(red, k2)
               IN  IF i2 >= i1 THEN SomeR(i1, i2 + 1) ELSE SomeR(i1, i2) :
                 k1 \in gen_range(0, Len(mins)), k2 \in gen_range(0, Len(red) - 1) }

\* the equality test done with compare_percentage instead of percentage()
equal_test_by_compare(s, x, y) == compare_percentage(At(s, x), At(s, y)) = "Equal"

\* the test of equal_pair on two positions
equal_test(s, x, y) == LtEpsilon(AbsDiff(percentage(At(s, y)), percentage(At(s, x))))

\* the nested loops of equal_pair over the shuffled positions sh, from (i1, i2) on
RECURSIVE equal_scan(_, _, _, _)
equal_scan(s, sh, i1, i2) ==
    IF i1 >= Len(sh) THEN NoneR
    ELSE IF i2 >= Len(sh) THEN equal_scan(s, sh, i1 + 1, i1 + 2)
    ELSE IF equal_test(s, At(sh, i1), At(sh, i2)) THEN SomeR(At(sh, i1), At(sh, i2))
    ELSE equal_scan(s, sh, i1, i2 + 1)

\* RelVec::equal_pair
equal_pair(s) ==
    LET red == reduced(s)
    IN  IF Len(red) < 2 THEN {NoneR}
        ELSE { equal_scan(s, sh, 0, 1) : sh \in shuffle(red) }

\* the nested loops of nearest_pair; min is None or Some((i1, i2, d))
NoMin == [some |-> FALSE, i1 |-> 0, i2 |-> 0, d |-> [nan |-> TRUE, num |-> 0, den |-> 1]]

RECURSIVE nearest_scan(_, _, _, _, _)
nearest_scan(s, sh, i1, i2, min) ==
    IF i1 >= Len(sh) THEN min
    ELSE IF i2 >= Len(sh) THEN nearest_scan(s, sh, i1 + 1, i1 + 2, min)
    ELSE LET d2 == AbsDiff(percentage(At(s, At(sh, i2))), percentage(At(s, At(sh, i1))))
             next == IF min.some
                     THEN IF FloatLess(d2, min.d)
                          THEN [some |-> TRUE, i1 |-> i1, i2 |-> i2, d |-> d2]
                          ELSE min
                     ELSE [some |-> TRUE, i1 |-> i1, i2 |-> i2, d |-> d2]
         IN  nearest_scan(s, sh, i1, i2 + 1, next)

\* RelVec::nearest_pair
nearest_pair(s) ==
    LET red == reduced(s)
    IN  IF Len(red) < 2 THEN {NoneR}
        ELSE { LET m == nearest_scan(s, sh, 0, 1, NoMin)
               IN  IF m.some THEN SomeR(At(sh, m.i1), At(sh, m.i2)) ELSE NoneR :
                 sh \in shuffle(red) }

\* RelVec::min_equal_pair: pairs <<branch, result>>; branch "equal" when the
\* result is equal_pair's, "min" when it is min_pair's.  heads is gen_bool(0.5)
\* true (equal_pair, falling back to min_pair on None), tails is false.
min_equal_pair(s) ==
    LET viaMin == { <<"min", r>> : r \in min_pair(s) }
        heads == UNION { IF q.tag = "Some" THEN { <<"equal", q>> } ELSE viaMin : q \in equal_pair(s) }
        tails == viaMin
    IN  heads \cup tails

----------------------------------------------------------------------------
(* The state machine *)

\* every collection of at most MaxLen entries, the i-th named i
Collections ==
    UNION { { c \in [1 .. n -> RelEntry] : \A i \in 1 .. n : c[i].name = i } : n \in 0 .. MaxLen }

Init ==
    /\ inner \in Collections
    /\ pc = "idle"
    /\ ret = UnitR
    /\ vec = <<>>
    /\ old = <<>>
    /\ arg = NoArg

Add ==
    /\ pc = "idle"
    /\ Len(inner) < MaxLen
    /\ \E name \in Names :
        /\ inner' = add(inner, name)
        /\ arg' = [kind |-> "name", n |-> name]
    /\ pc' = "add"
    /\ old' = inner
    /\ UNCHANGED <<ret, vec>>

Remove ==
    /\ pc = "idle"
    /\ \E p \in Predicates :
        /\ inner' = remove(inner, p)
        /\ arg' = p
    /\ pc' = "remove"
    /\ old' = inner
    /\ UNCHANGED <<ret, vec>>

SortPercentage ==
    /\ pc = "idle"
    /\ inner' \in sort_percentage(inner)
    /\ pc' = "sort_percentage"
    /\ old' = inner
    /\ UNCHANGED <<ret, vec, arg>>

Reset ==
    /\ pc = "idle"
    /\ \E i \in 0 .. (Len(inner) - 1) :
        /\ inner' = [inner EXCEPT ![i + 1] = reset(inner[i + 1])]
        /\ arg' = [kind |-> "index", n |-> i]
    /\ pc' = "reset"
    /\ old' = inner
    /\ UNCHANGED <<ret, vec>>

MinVotes ==
    /\ pc = "idle"
    /\ vec' = min_votes(inner)
    /\ pc' = "min_votes"
    /\ UNCHANGED <<inner, ret, old, arg>>

RandomPair ==
    /\ pc = "idle"
    /\ ret' \in random_pair(inner)
    /\ pc' = "random_pair"
    /\ UNCHANGED <<inner, vec, old, arg>>

MinPair ==
    /\ pc = "idle"
    /\ ret' \in min_pair(inner)
    /\ pc' = "min_pair"
    /\ UNCHANGED <<inner, vec, old, arg>>

EqualPair ==
    /\ pc = "idle"
    /\ ret' \in equal_pair(inner)
    /\ pc' = "equal_pair"
    /\ UNCHANGED <<inner, vec, old, arg>>

NearestPair ==
    /\ pc = "idle"
    /\ ret' \in nearest_pair(inner)
    /\ pc' = "nearest_pair"
    /\ UNCHANGED <<inner, vec, old, arg>>

MinEqualPair ==
    /\ pc = "idle"
    /\ \E br \in min_equal_pair(inner) :
        /\ ret' = br[2]
        /\ arg' = [kind |-> br[1], n |-> 0]
    /\ pc' = "min_equal_pair"
    /\ UNCHANGED <<inner, vec, old>>

Next ==
    \/ Add
    \/ Remove
    \/ SortPercentage
    \/ Reset
    \/ MinVotes
    \/ RandomPair
    \/ MinPair
    \/ EqualPair
    \/ NearestPair
    \/ MinEqualPair

Spec == Init /\ [][Next]_vars

----------------------------------------------------------------------------
(* Vocabulary of the properties *)

SelectionOps == {"random_pair", "min_pair", "equal_pair", "nearest_pair", "min_equal_pair"}

\* positions (0-based) of the live collection
Positions == 0 .. (Len(inner) - 1)

Unlocked == { i \in Positions : ~At(inner, i).locked }

Returned == pc \in SelectionOps /\ ret.tag = "Some"

InRange(r) == r.a \in Positions /\ r.b \in Positions

\* two entries have a win percentage and it is the same number
SamePercentage(e, f) ==
    /\ e.votes > 0
    /\ f.votes > 0
    /\ e.wins * f.votes = f.wins * e.votes

\* e's win percentage is strictly higher than f's (both have one)
HigherPercentage(e, f) ==
    /\ e.votes > 0
    /\ f.votes > 0
    /\ e.wins * f.votes > f.wins * e.votes

\* the least votes among the unlocked entries
IsMinUnlocked(i) ==
    /\ i \in Unlocked
    /\ \A j \in Unlocked : At(inner, i).votes <= At(inner, j).votes

\* how often entry e occurs in s
Count(s, e) == Cardinality({ k \in 1 .. Len(s) : s[k] = e })

IsPermutation(s, t) ==
    /\ Len(s) = Len(t)
    /\ \A e \in Range(s) \cup Range(t) : Count(s, e) = Count(t, e)

----------------------------------------------------------------------------
(* C1: a pair returned by a selection strategy never points at a locked    *)
(* entry; with exactly two unlocked entries the pair is those two.         *)
C1_NeverLocked ==
    Returned =>
        /\ InRange(ret)
        /\ ~At(inner, ret.a).locked
        /\ ~At(inner, ret.b).locked
        /\ (Cardinality(Unlocked) = 2 => {ret.a, ret.b} = Unlocked)

----------------------------------------------------------------------------
(* C2: after sort_percentage no entry with votes = 0 stands before an      *)
(* entry with votes > 0.                                                   *)
C2_ZeroVotesLast ==
    (pc = "sort_percentage") =>
        \A i, j \in Positions :
            (i < j) => ~(At(inner, i).votes = 0 /\ At(inner, j).votes > 0)

----------------------------------------------------------------------------
(* C3: after sort_percentage the entries are a permutation of the input    *)
(* and, of two entries with votes > 0, the one with the strictly higher    *)
(* win percentage stands first.                                            *)
C3_DescendingPercentage ==
    (pc = "sort_percentage") =>
        /\ IsPermutation(old, inner)
        /\ \A i, j \in Positions :
            HigherPercentage(At(inner, i), At(inner, j)) => (i < j)

----------------------------------------------------------------------------
(* C4: min_votes returns, ascending and without repeats, exactly the       *)
(* unlocked positions whose votes is the least votes of the unlocked       *)
(* entries; it is empty exactly when no entry is unlocked.                 *)
C4_MinVotesExact ==
    (pc = "min_votes") =>
        /\ \A k \in 1 .. (Len(vec) - 1) : vec[k] < vec[k + 1]
        /\ Range(vec) = { i \in Positions : IsMinUnlocked(i) }
        /\ (vec = <<>>) <=> (Unlocked = {})

\* a locked entry holds fewer votes than the minimum, which two entries tie on
C4_Witness ==
    /\ pc = "min_votes"
    /\ Len(vec) = 2
    /\ \E i \in Positions :
        At(inner, i).locked /\ At(inner, i).votes < At(inner, vec[1]).votes

----------------------------------------------------------------------------
(* C5: equal_pair returns a pair only of two different unlocked entries    *)
(* with equal win percentage, and returns none exactly when no two         *)
(* different unlocked entries have equal win percentage.                   *)
C5_EqualPair ==
    (pc = "equal_pair") =>
        /\ ret.tag \in {"Some", "None"}
        /\ (ret.tag = "Some") =>
            /\ ret.a \in Unlocked
            /\ ret.b \in Unlocked
            /\ ret.a # ret.b
            /\ SamePercentage(At(inner, ret.a), At(inner, ret.b))
        /\ (ret.tag = "None") <=>
            ~\E i, j \in Unlocked : i # j /\ SamePercentage(At(inner, i), At(inner, j))

\* a tie is returned while a third unlocked entry has another percentage
C5_Witness ==
    /\ pc = "equal_pair"
    /\ ret.tag = "Some"
    /\ \E k \in Unlocked :
        /\ At(inner, k).votes > 0
        /\ ~SamePercentage(At(inner, k), At(inner, ret.a))

----------------------------------------------------------------------------
(* C6: with at least two unlocked entries nearest_pair returns a pair      *)
(* that attains the least absolute percentage difference: no pair of       *)
(* unlocked entries with votes > 0 is strictly closer than the returned    *)
(* one.  A returned pair with a zero-vote member has no difference and     *)
(* attains nothing, so any pair with a difference is closer.               *)
C6_NearestIsClosest ==
    (pc = "nearest_pair" /\ Cardinality(Unlocked) >= 2) =>
        /\ ret.tag = "Some"
        /\ InRange(ret)
        /\ \A i, j \in Unlocked :
            (i # j /\ At(inner, i).votes > 0 /\ At(inner, j).votes > 0) =>
                LET d == AbsDiff(percentage(At(inner, ret.a)), percentage(At(inner, ret.b)))
                    dij == AbsDiff(percentage(At(inner, i)), percentage(At(inner, j)))
                IN  ~d.nan /\ ~(dij.num * d.den < d.num * dij.den)

----------------------------------------------------------------------------
(* C7: with fewer than two unlocked entries every strategy returns none,   *)
(* none fails, and random_pair, min_pair, nearest_pair and min_equal_pair  *)
(* return none in that case only.                                          *)
C7_NoneIffFewerThanTwo ==
    (pc \in SelectionOps) =>
        /\ ret.tag \in {"Some", "None"}
        /\ (Cardinality(Unlocked) < 2) => (ret.tag = "None")
        /\ (pc # "equal_pair" /\ ret.tag = "None") => (Cardinality(Unlocked) < 2)

\* one unlocked entry among several: min_pair returns none
C7_Witness ==
    /\ pc = "min_pair"
    /\ Len(inner) >= 2
    /\ Cardinality(Unlocked) = 1
    /\ ret.tag = "None"

----------------------------------------------------------------------------
(* C8: remove leaves exactly the entries the predicate is false for, in    *)
(* their original order and unchanged; removing again with the same        *)
(* predicate changes nothing.                                              *)
Kept == { k \in 1 .. Len(old) : ~filter(arg, old[k]) }

C8_RemoveExact ==
    (pc = "remove") =>
        /\ Len(inner) = Cardinality(Kept)
        /\ \A k \in Kept :
            inner[Cardinality({ m \in Kept : m <= k })] = old[k]
        /\ remove(inner, arg) = inner

\* an entry in the middle was removed and entries on both sides stay
C8_Witness ==
    /\ pc = "remove"
    /\ Len(old) = 3
    /\ Len(inner) = 2
    /\ filter(arg, old[2])

----------------------------------------------------------------------------
(* C9: a pair returned by a selection strategy has two different           *)
(* positions, both inside the live collection.                             *)
C9_DistinctInRange ==
    Returned => (InRange(ret) /\ ret.a # ret.b)

\* min_pair shifted its second position past the first, up to the last entry
C9_Witness ==
    /\ pc = "min_pair"
    /\ ret.tag = "Some"
    /\ ret.a < ret.b
    /\ ret.b = Len(inner) - 1
    /\ Len(inner) = 3

----------------------------------------------------------------------------
(* C10: the first position returned by min_pair, and by min_equal_pair on  *)
(* its min_pair branch, is an unlocked entry holding the least votes of    *)
(* the unlocked entries.                                                   *)
C10_FirstIsMinVotes ==
    ((pc = "min_pair" \/ (pc = "min_equal_pair" /\ arg.kind = "min")) /\ Cardinality(Unlocked) >= 2) =>
        /\ ret.tag = "Some"
        /\ IsMinUnlocked(ret.a)
        /\ \E k \in 1 .. Len(min_votes(inner)) : min_votes(inner)[k] = ret.a

\* min_equal_pair took the min_pair branch; an unlocked entry has more votes
\* than the first position and a locked one has fewer
C10_Witness ==
    /\ pc = "min_equal_pair"
    /\ arg.kind = "min"
    /\ ret.tag = "Some"
    /\ \E i \in Unlocked : At(inner, i).votes > At(inner, ret.a).votes
    /\ \E i \in Positions : At(inner, i).locked /\ At(inner, i).votes < At(inner, ret.a).votes

----------------------------------------------------------------------------
(* compare_percentage called on two entries whose counters range over      *)
(* values large enough for the cross products to leave the counter type    *)

\* entries with votes > 0 and wins <= votes, counters up to CmpMaxVotes
RankedEntries ==
    { e \in [name : {1}, wins : 0 .. CmpMaxVotes, votes : 1 .. CmpMaxVotes, locked : {FALSE}] :
        e.wins <= e.votes }

InitCmp ==
    /\ inner \in { <<a, [b EXCEPT !.name = 2]>> : a \in RankedEntries, b \in RankedEntries }
    /\ pc = "idle"
    /\ ret = UnitR
    /\ vec = <<>>
    /\ old = <<>>
    /\ arg = NoArg

\* inner[0].compare_percentage(&inner[1])
ComparePercentage ==
    /\ pc = "idle"
    /\ Len(inner) = 2
    /\ \E o \in compare_percentage_outcomes(At(inner, 0), At(inner, 1)) :
        ret' = [tag |-> o, a |-> 0, b |-> 0]
    /\ pc' = "compare_percentage"
    /\ UNCHANGED <<inner, vec, old, arg>>

NextCmp == ComparePercentage

SpecCmp == InitCmp /\ [][NextCmp]_vars

----------------------------------------------------------------------------
(* C11: for entries with votes > 0 and wins <= votes, compare_percentage   *)
(* returns Less, Equal or Greater exactly as wins/votes of the first is    *)
(* less than, equal to or greater than that of the second, and neither     *)
(* cross product exceeds the counter type (no failure, no wrapped value).  *)
C11_CompareExact ==
    (pc = "compare_percentage") =>
        LET a == At(inner, 0)
            b == At(inner, 1)
        IN  /\ a.wins * b.votes <= CounterMax
            /\ b.wins * a.votes <= CounterMax
            /\ ret.tag # "Panic"
            /\ ret.tag = Cmp(a.wins * b.votes, b.wins * a.votes)

====
